---------------------------- MODULE Spec2Model ----------------------------
(***************************************************************************)
(* A model of the two programs of the repository:                          *)
(*   vector.py  the content indexer (get_table_columns,                    *)
(*              fetch_column_content, add_to_vector_store, __main__)       *)
(*   agent.py   the interactive question loop (create_sql_database,        *)
(*              setup_agent, query_agent, main)                            *)
(* A Python str is a sequence of characters; a character is a one-element  *)
(* token (a TLA+ string).                                                  *)
(***************************************************************************)
EXTENDS Integers, Sequences, FiniteSets, TLC

VARIABLES
    \* ---- text cleaning applied in isolation (vector.py line 110)
    n_input,       \* the string given
    n_text,        \* the current string
    n_prev,        \* the string before the last application
    n_applied,     \* how many times the cleaning was applied
    \* ---- vector.py
    db,            \* the database: the rows each text column holds
    ipc,           \* position of the indexer script
    table_configs, \* fetch_column_content's table_configs
    cfg_i,         \* position of `for config in table_configs`
    all_content,   \* fetch_column_content's all_content
    content,       \* __main__'s content: what fetch_column_content returned
    reported,      \* the error messages printed
    indexed,       \* the entries added to the vector store by this run
    \* ---- agent.py
    apc,           \* position of main
    sqldb,         \* main's db: whether the SQLDatabase was created
    dialect,       \* the global dialect
    agent_built,   \* main's agent: whether setup_agent returned an executor
    memory,        \* the executor's memory: the turns kept as chat_history
    prompts,       \* how many times the prompt was shown
    entered,       \* the lines entered, in order
    question,      \* main's question
    outcome,       \* what agent.invoke did for the last question
    response,      \* main's response
    calls,         \* the queries passed to query_agent, in order
    printed,       \* the Response lines printed, in order
    logged,        \* the messages given to logger.error
    exc            \* the exception that left main, if any

nvars == <<n_input, n_text, n_prev, n_applied>>
ivars == <<db, ipc, table_configs, cfg_i, all_content, content, reported, indexed>>
avars == <<apc, sqldb, dialect, agent_built, memory, prompts, entered, question,
           outcome, response, calls, printed, logged, exc>>
vars == <<nvars, ivars, avars>>

---------------------------------------------------------------------------
(* Characters and Python's str predicates                                  *)

SP == " "
TAB == "\t"
\* U+00BD VULGAR FRACTION ONE HALF: str.isnumeric() is True, not in [0-9]
HALF == "U+00BD"

Chars == {SP, TAB, "a", "b", "1", HALF}

\* Py_UNICODE_ISSPACE: what \s matches in a str pattern and what strip() removes
IsSpace(c) == c \in {SP, TAB}

\* the character class [0-9]
IsAsciiDigit(c) == c \in {"1"}

\* Numeric_Type = Digit, Decimal or Numeric
IsNumericChar(c) == c \in {"1", HALF}

MaxLen == 5

Strings(n) == UNION {[1..k -> Chars] : k \in 0..n}

---------------------------------------------------------------------------
(* re.sub(r'\s+', ' ', s).strip()                                          *)

RECURSIVE DropSpaces(_)
DropSpaces(s) ==
    IF s # <<>> /\ IsSpace(Head(s)) THEN DropSpaces(Tail(s)) ELSE s

RECURSIVE SubSpaces(_)
\* re.sub(r'\s+', ' ', s): every maximal run of whitespace becomes one space
SubSpaces(s) ==
    IF s = <<>> THEN <<>>
    ELSE IF IsSpace(Head(s)) THEN <<SP>> \o SubSpaces(DropSpaces(Tail(s)))
    ELSE <<Head(s)>> \o SubSpaces(Tail(s))

RECURSIVE DropSpacesRight(_)
DropSpacesRight(s) ==
    IF s # <<>> /\ IsSpace(s[Len(s)])
    THEN DropSpacesRight(SubSeq(s, 1, Len(s) - 1))
    ELSE s

\* str.strip(): leading and trailing whitespace removed
Strip(s) == DropSpacesRight(DropSpaces(s))

RECURSIVE SubSpacePairs(_)
\* a slip: r'\s\s' in place of r'\s+' (whitespace replaced two at a time)
SubSpacePairs(s) ==
    IF s = <<>> THEN <<>>
    ELSE IF Len(s) >= 2 /\ IsSpace(s[1]) /\ IsSpace(s[2])
         THEN <<SP>> \o SubSpacePairs(Tail(Tail(s)))
    ELSE <<Head(s)>> \o SubSpacePairs(Tail(s))

CleanTextPairs(s) == Strip(SubSpacePairs(s))

\* cleaned_text = re.sub(r'\s+', ' ', str(value)).strip()
CleanText(s) == Strip(SubSpaces(s))

---------------------------------------------------------------------------
(* The cleaning applied repeatedly to one string                           *)

MaxApply == 2

IndexerIdle ==
    /\ db = <<>>
    /\ ipc = "idle"
    /\ table_configs = <<>>
    /\ cfg_i = 0
    /\ all_content = <<>>
    /\ content = <<>>
    /\ reported = {}
    /\ indexed = <<>>

NoLine == "none"

AgentIdle ==
    /\ apc = "idle"
    /\ sqldb = FALSE
    /\ dialect = "unset"
    /\ agent_built = FALSE
    /\ memory = <<>>
    /\ prompts = 0
    /\ entered = <<>>
    /\ question = NoLine
    /\ outcome = "none"
    /\ response = <<>>
    /\ calls = <<>>
    /\ printed = <<>>
    /\ logged = {}
    /\ exc = "none"

NormalizeIdle ==
    /\ n_input = <<>>
    /\ n_text = <<>>
    /\ n_prev = <<>>
    /\ n_applied = 0

InitNormalize ==
    /\ n_input \in Strings(MaxLen)
    /\ n_text = n_input
    /\ n_prev = <<>>
    /\ n_applied = 0
    /\ IndexerIdle
    /\ AgentIdle

ApplyCleanText ==
    /\ n_applied < MaxApply
    /\ n_prev' = n_text
    /\ n_text' = CleanText(n_text)
    /\ n_applied' = n_applied + 1
    /\ UNCHANGED <<n_input, ivars, avars>>

NextNormalize == ApplyCleanText

SpecNormalize == InitNormalize /\ [][NextNormalize]_vars

\* C10: the cleaning is idempotent: once it has been applied to a string,
\* applying it again returns the identical string
\* (normalize(normalize(s)) = normalize(s) for every input s).
C10_NormalizeIdempotent == n_applied >= 2 => n_text = n_prev

\* a string with a leading tab and a run of mixed whitespace was cleaned twice
C10_Witness ==
    /\ n_input = <<TAB, "a", TAB, SP, "b">>
    /\ n_applied = 2
    /\ n_text = <<"a", SP, "b">>

---------------------------------------------------------------------------
(* vector.py: the content indexer                                          *)

\* what get_table_columns reads from information_schema.columns,
\* ORDER BY table_name, column_name
Schema ==
    << [table |-> "dishes", column |-> "name"],
       [table |-> "ingredients", column |-> "name"] >>

Configs == {Schema[i] : i \in DOMAIN Schema}

\* the values a text column may hold (SELECT DISTINCT ... IS NOT NULL)
CellValues ==
    { <<>>,                        \* ""
      <<SP, TAB>>,                 \* whitespace only
      <<SP, "1", SP>>,             \* digits with surrounding whitespace
      <<HALF>>,                    \* a numeric character outside [0-9]
      <<"1", "a">>,                \* digits and a letter
      <<"a", SP, "b">>,
      <<"a", TAB, SP, "b">> }      \* cleans to the same text as the one before

MaxRows == 2

\* the results of SELECT DISTINCT: no value twice, in the order the database gives
RowSeqs ==
    {r \in UNION {[1..k -> CellValues] : k \in 0..MaxRows} :
        \A i, j \in DOMAIN r : i # j => r[i] # r[j]}

\* str.isnumeric() restricted to [0-9] (what ^[0-9]+$ matches)
IsDigitsOnly(s) == s # <<>> /\ \A i \in DOMAIN s : IsAsciiDigit(s[i])

\* str.isnumeric(): at least one character, all of them numeric characters
IsNumeric(s) == s # <<>> /\ \A i \in DOMAIN s : IsNumericChar(s[i])

\* the two tests a value passes to be kept: `if row[column]` and
\* `if cleaned_text and not cleaned_text.isnumeric()`
Keeps(value) ==
    /\ value # <<>>
    /\ CleanText(value) # <<>>
    /\ ~IsNumeric(CleanText(value))

Entry(value, config) ==
    [text |-> CleanText(value),
     table_name |-> config.table,
     column_name |-> config.column]

RECURSIVE ColumnContent(_, _)
\* `for row in result.data`: the entries one column appends to all_content
ColumnContent(config, rows) ==
    IF rows = <<>> THEN <<>>
    ELSE (IF Keeps(Head(rows)) THEN <<Entry(Head(rows), config)>> ELSE <<>>)
         \o ColumnContent(config, Tail(rows))

RECURSIVE KeepLast(_)
\* a slip: the later occurrence of a text replaces the earlier one
KeepLast(items) ==
    IF items = <<>> THEN <<>>
    ELSE IF \E j \in 2..Len(items) : items[j].text = items[1].text
         THEN KeepLast(Tail(items))
         ELSE <<Head(items)>> \o KeepLast(Tail(items))

RECURSIVE RemoveDuplicates(_, _)
\* `for item in all_content: if item['text'] not in seen: ...`
RemoveDuplicates(items, seen) ==
    IF items = <<>> THEN <<>>
    ELSE IF Head(items).text \in seen
         THEN RemoveDuplicates(Tail(items), seen)
         ELSE <<Head(items)>>
              \o RemoveDuplicates(Tail(items), seen \cup {Head(items).text})

UniqueContentKeepLast(items) == KeepLast(items)

\* unique_content
UniqueContent(items) == RemoveDuplicates(items, {})

\* a slip: the handler returning what was gathered before the error
ErrorResultPartial(gathered) == UniqueContent(gathered)

\* `except Exception as e: print(...); return []`
ErrorResult(gathered) == <<>>

ErrColumns == "Error fetching table information"
ErrContent == "Error fetching column content"
ErrMain == "Error"

InitIndexer ==
    /\ db \in [Configs -> RowSeqs]
    /\ ipc = "start"
    /\ table_configs = <<>>
    /\ cfg_i = 0
    /\ all_content = <<>>
    /\ content = <<>>
    /\ reported = {}
    /\ indexed = <<>>
    /\ NormalizeIdle
    /\ AgentIdle

\* get_table_columns, called first by fetch_column_content: the catalog query
\* answers, or it fails and the function prints and returns []
GetTableColumns ==
    /\ ipc = "start"
    /\ \E ok \in BOOLEAN :
         IF ok
         THEN /\ table_configs' = Schema
              /\ UNCHANGED reported
         ELSE /\ table_configs' = <<>>
              /\ reported' = reported \cup {ErrColumns}
    /\ cfg_i' = 1
    /\ ipc' = "columns"
    /\ UNCHANGED <<db, all_content, content, indexed, nvars, avars>>

\* one turn of `for config in table_configs`: the query answers and its rows
\* are cleaned and appended, or it raises and fetch_column_content's handler
\* prints the error and returns
FetchColumn ==
    /\ ipc = "columns"
    /\ cfg_i <= Len(table_configs)
    /\ \E ok \in BOOLEAN :
         IF ok
         THEN /\ all_content' = all_content
                    \o ColumnContent(table_configs[cfg_i], db[table_configs[cfg_i]])
              /\ cfg_i' = cfg_i + 1
              /\ UNCHANGED <<ipc, content, reported>>
         ELSE /\ content' = ErrorResult(all_content)
              /\ reported' = reported \cup {ErrContent}
              /\ ipc' = "fetched"
              /\ UNCHANGED <<all_content, cfg_i>>
    /\ UNCHANGED <<db, table_configs, indexed, nvars, avars>>

\* after the last column: duplicates removed, unique_content returned
ReturnUnique ==
    /\ ipc = "columns"
    /\ cfg_i > Len(table_configs)
    /\ content' = UniqueContent(all_content)
    /\ ipc' = "fetched"
    /\ UNCHANGED <<db, table_configs, cfg_i, all_content, reported, indexed, nvars, avars>>

\* __main__: add_to_vector_store(content); an index error is caught and printed
AddToVectorStore ==
    /\ ipc = "fetched"
    /\ \E ok \in BOOLEAN :
         IF ok
         THEN /\ indexed' = indexed \o content
              /\ UNCHANGED reported
         ELSE /\ reported' = reported \cup {ErrMain}
              /\ UNCHANGED indexed
    /\ ipc' = "done"
    /\ UNCHANGED <<db, table_configs, cfg_i, all_content, content, nvars, avars>>

NextIndexer == GetTableColumns \/ FetchColumn \/ ReturnUnique \/ AddToVectorStore

SpecIndexer == InitIndexer /\ [][NextIndexer]_vars

---------------------------------------------------------------------------
(* Properties of the indexer                                               *)

Texts(items) == {items[i].text : i \in DOMAIN items}

\* fetch_column_content has returned
Returned == ipc \in {"fetched", "done"}

\* the kept occurrences, in discovery order: column k of table_configs, row r
Occurrences ==
    {o \in (DOMAIN table_configs) \X (1..MaxRows) :
        /\ o[2] \in DOMAIN db[table_configs[o[1]]]
        /\ Keeps(db[table_configs[o[1]]][o[2]])}

OccText(o) == CleanText(db[table_configs[o[1]]][o[2]])

Earlier(o, p) == o[1] < p[1] \/ (o[1] = p[1] /\ o[2] < p[2])

\* C1: when fetch_column_content returns the rows of its columns, its result
\* holds exactly one entry per distinct cleaned text among them, and that
\* entry carries the table and column of the first occurrence in discovery
\* order (columns in enumeration order, rows in result order).
C1_OneEntryPerTextFirstSeen ==
    (Returned /\ ErrContent \notin reported) =>
        /\ \A i, j \in DOMAIN content :
               i # j => content[i].text # content[j].text
        /\ Texts(content) = {OccText(o) : o \in Occurrences}
        /\ \A i \in DOMAIN content :
               \E o \in Occurrences :
                   /\ OccText(o) = content[i].text
                   /\ content[i].table_name = table_configs[o[1]].table
                   /\ content[i].column_name = table_configs[o[1]].column
                   /\ \A p \in Occurrences :
                          OccText(p) = content[i].text => ~Earlier(p, o)

\* the text "a b" is found twice in the first column (under two spellings)
\* and again in the second, and the result holds it once, from the first
C1_Witness ==
    /\ ipc = "done"
    /\ ErrContent \notin reported
    /\ db[Schema[1]] = << <<"a", TAB, SP, "b">>, <<"a", SP, "b">> >>
    /\ db[Schema[2]] = << <<"1", "a">>, <<"a", SP, "b">> >>
    /\ Len(all_content) = 4
    /\ Len(content) = 2
    /\ content[1] = [text |-> <<"a", SP, "b">>,
                     table_name |-> "dishes", column_name |-> "name"]

\* C4 as stated: a value whose cleaned form matches ^[0-9]+$ is absent from
\* the result, and a non-empty cleaned value with at least one character
\* outside [0-9] is kept.
C4_AsciiDigitFilter ==
    (Returned /\ ErrContent \notin reported) =>
        \A k \in DOMAIN table_configs :
            \A r \in DOMAIN db[table_configs[k]] :
                LET c == CleanText(db[table_configs[k]][r]) IN
                /\ IsDigitsOnly(c) => c \notin Texts(content)
                /\ (c # <<>> /\ \E i \in DOMAIN c : ~IsAsciiDigit(c[i]))
                       => c \in Texts(content)

\* C4 amended: a value whose cleaned form consists only of numeric characters
\* (the digits 0-9 among them) is absent from the result, and a
\* non-empty cleaned value with at least one non-numeric character is kept.
C4_NumericFilter ==
    (Returned /\ ErrContent \notin reported) =>
        \A k \in DOMAIN table_configs :
            \A r \in DOMAIN db[table_configs[k]] :
                LET c == CleanText(db[table_configs[k]][r]) IN
                /\ IsDigitsOnly(c) => c \notin Texts(content)
                /\ (c # <<>> /\ \A i \in DOMAIN c : IsNumericChar(c[i]))
                       => c \notin Texts(content)
                /\ (c # <<>> /\ \E i \in DOMAIN c : ~IsNumericChar(c[i]))
                       => c \in Texts(content)

\* a column holding "  1  ", and another holding a single vulgar fraction and
\* "1a", were read: only "1a" is in the result
C4_Witness ==
    /\ ipc = "done"
    /\ ErrContent \notin reported
    /\ db[Schema[1]] = << <<SP, "1", SP>> >>
    /\ db[Schema[2]] = << <<HALF>>, <<"1", "a">> >>
    /\ Texts(content) = { <<"1", "a">> }

\* the entries taken from the columns read before the one whose query failed
EarlierTexts ==
    {OccText(o) : o \in {p \in Occurrences : p[1] < cfg_i}}

\* C5 as stated: after a database error on some column, the entries extracted
\* from the columns before it are part of the result and reach the index.
C5_PartialProgressKept ==
    /\ (Returned /\ ErrContent \in reported) => EarlierTexts \subseteq Texts(content)
    /\ (ipc = "done" /\ ErrContent \in reported /\ ErrMain \notin reported)
           => EarlierTexts \subseteq Texts(indexed)

\* C5 amended: after a database error on some column the error is reported,
\* no later column is read, and fetch_column_content returns the empty list:
\* the entries of the earlier columns are discarded and none reaches the index.
C5_ErrorDiscardsAll ==
    (Returned /\ ErrContent \in reported) =>
        /\ cfg_i <= Len(table_configs)
        /\ Len(all_content) = Cardinality({o \in Occurrences : o[1] < cfg_i})
        /\ content = <<>>
        /\ indexed = <<>>

\* the first column gave two entries, the second column's query failed, and
\* the script went on to the vector store with nothing
C5_Witness ==
    /\ ipc = "done"
    /\ ErrContent \in reported
    /\ ErrMain \notin reported
    /\ cfg_i = 2
    /\ Len(all_content) = 2
    /\ content = <<>>
    /\ indexed = <<>>

---------------------------------------------------------------------------
(* agent.py: the interactive loop                                          *)

\* str.lower() on the characters the entered lines are made of
LowerChar(c) ==
    CASE c = "Q" -> "q"
      [] c = "U" -> "u"
      [] c = "I" -> "i"
      [] c = "T" -> "t"
      [] OTHER -> c

Lower(s) == [i \in DOMAIN s |-> LowerChar(s[i])]

QuitWord == <<"q", "u", "i", "t">>

\* the lines the user may enter
InputLines ==
    { <<"q", "u", "i", "t">>,
      <<"Q", "u", "i", "t">>,
      <<"Q", "U", "I", "T">>,
      <<SP, "q", "u", "i", "t", SP>>,
      <<"q", "u", "i", "t", "s">>,
      <<>> }

\* a slip: the comparison made case-sensitive
IsQuitExact(line) == line = QuitWord

\* a variant: the line trimmed before the comparison
IsQuitTrimmed(line) == Lower(Strip(line)) = QuitWord

\* `question.lower() == 'quit'`
IsQuitCommand(line) == Lower(line) = QuitWord

\* what agent.invoke may do for one question: return a result with an
\* "output", return a result without one, or raise
AgentOutcomes ==
    { [kind |-> "output", text |-> "answer"],
      [kind |-> "no_output", text |-> ""],
      [kind |-> "raises", text |-> "boom"] }

\* a response is the sequence of the pieces of text it is made of
Apology == <<"I apologize, but I couldn't generate a response.">>

ErrorMsg(e) == <<"Error querying agent: ", e>>

\* a slip: query_agent without its try/except
QueryAgentUnguarded(o) ==
    CASE o.kind = "output" -> [raised |-> FALSE, value |-> <<o.text>>]
      [] o.kind = "no_output" -> [raised |-> FALSE, value |-> Apology]
      [] o.kind = "raises" -> [raised |-> TRUE, value |-> <<o.text>>]

\* query_agent: what it hands back to main, and whether it raised
QueryAgent(o) ==
    CASE o.kind = "output" -> [raised |-> FALSE, value |-> <<o.text>>]
      [] o.kind = "no_output" -> [raised |-> FALSE, value |-> Apology]
      [] o.kind = "raises" -> [raised |-> FALSE, value |-> ErrorMsg(o.text)]

\* a slip: setup_agent's handler logging without `raise`
SetupAgentSwallows == FALSE

\* setup_agent's handler ends with `raise`
SetupAgentReraises == TRUE

LogConnect == "Failed to create database connection"
LogSetup == "Failed to set up agent"
LogMain == "Application error"

MaxQuestions == 3

InitAgent ==
    /\ apc = "start"
    /\ sqldb = FALSE
    /\ dialect = "unset"
    /\ agent_built = FALSE
    /\ memory = <<>>
    /\ prompts = 0
    /\ entered = <<>>
    /\ question = NoLine
    /\ outcome = "none"
    /\ response = <<>>
    /\ calls = <<>>
    /\ printed = <<>>
    /\ logged = {}
    /\ exc = "none"
    /\ NormalizeIdle
    /\ IndexerIdle

\* main: db = create_sql_database(); dialect = db.dialect. On failure
\* create_sql_database logs and re-raises, and main's handler does the same.
CreateSqlDatabase ==
    /\ apc = "start"
    /\ \E ok \in BOOLEAN :
         IF ok
         THEN /\ sqldb' = TRUE
              /\ dialect' = "postgresql"
              /\ apc' = "connected"
              /\ UNCHANGED <<logged, exc>>
         ELSE /\ logged' = logged \cup {LogConnect, LogMain}
              /\ exc' = "connect"
              /\ apc' = "crashed"
              /\ UNCHANGED <<sqldb, dialect>>
    /\ UNCHANGED <<agent_built, memory, prompts, entered, question, outcome,
                   response, calls, printed, nvars, ivars>>

\* main: agent = setup_agent(db)
SetupAgent ==
    /\ apc = "connected"
    /\ \E ok \in BOOLEAN :
         IF ok
         THEN /\ agent_built' = TRUE
              /\ apc' = "prompt"
              /\ UNCHANGED <<logged, exc>>
         ELSE IF SetupAgentReraises
              THEN /\ logged' = logged \cup {LogSetup, LogMain}
                   /\ exc' = "setup"
                   /\ apc' = "crashed"
                   /\ UNCHANGED agent_built
              ELSE /\ logged' = logged \cup {LogSetup}
                   /\ apc' = "prompt"
                   /\ UNCHANGED <<agent_built, exc>>
    /\ memory' = <<>>
    /\ UNCHANGED <<sqldb, dialect, prompts, entered, question, outcome,
                   response, calls, printed, nvars, ivars>>

\* main: question = input(...), then the quit test: a quit line leaves the
\* loop, any other line goes to query_agent
ReadQuestion ==
    /\ apc = "prompt"
    /\ prompts < MaxQuestions
    /\ \E line \in InputLines :
         /\ question' = line
         /\ entered' = Append(entered, line)
         /\ IF IsQuitCommand(line)
            THEN /\ apc' = "exited"
                 /\ UNCHANGED calls
            ELSE /\ apc' = "asked"
                 /\ calls' = Append(calls, line)
    /\ prompts' = prompts + 1
    /\ UNCHANGED <<sqldb, dialect, agent_built, memory, outcome, response,
                   printed, logged, exc, nvars, ivars>>

\* main: input() raises EOFError at the end of the input; main's handler logs
\* and re-raises
EndOfInput ==
    /\ apc = "prompt"
    /\ prompts < MaxQuestions
    /\ prompts' = prompts + 1
    /\ logged' = logged \cup {LogMain}
    /\ exc' = "eof"
    /\ apc' = "crashed"
    /\ UNCHANGED <<sqldb, dialect, agent_built, memory, entered, question,
                   outcome, response, calls, printed, nvars, ivars>>

\* main: response = query_agent(agent, question). The executor's memory saves
\* the turn of a question that was answered.
AskAgent ==
    /\ apc = "asked"
    /\ \E o \in AgentOutcomes :
         /\ outcome' = o.kind
         /\ memory' = IF o.kind = "output"
                      THEN Append(memory, [input |-> question, output |-> o.text])
                      ELSE memory
         /\ IF QueryAgent(o).raised
            THEN /\ logged' = logged \cup {LogMain}
                 /\ exc' = "query"
                 /\ apc' = "crashed"
                 /\ UNCHANGED response
            ELSE /\ response' = QueryAgent(o).value
                 /\ apc' = "responded"
                 /\ UNCHANGED <<logged, exc>>
    /\ UNCHANGED <<sqldb, dialect, agent_built, prompts, entered, question,
                   calls, printed, nvars, ivars>>

\* main: print(f"\nResponse: {response}"), and back to the prompt
PrintResponse ==
    /\ apc = "responded"
    /\ printed' = Append(printed, [question |-> question, response |-> response])
    /\ apc' = "prompt"
    /\ UNCHANGED <<sqldb, dialect, agent_built, memory, prompts, entered,
                   question, outcome, response, calls, logged, exc, nvars, ivars>>

NextAgent ==
    \/ CreateSqlDatabase
    \/ SetupAgent
    \/ ReadQuestion
    \/ EndOfInput
    \/ AskAgent
    \/ PrintResponse

SpecAgent == InitAgent /\ [][NextAgent]_vars

---------------------------------------------------------------------------
(* Properties of the interactive loop                                      *)

\* C2 as stated: the loop ends exactly when the entered line, trimmed and
\* lower-cased, is "quit".
C2_QuitAfterTrimming ==
    question # NoLine =>
        ((apc = "exited") <=> (Lower(Strip(question)) = QuitWord))

\* C2 amended: the loop ends by the quit command exactly when the entered
\* line, lower-cased and not trimmed, is "quit"; every other entered line
\* (" quit " among them) is the query of a query_agent call.
C2_QuitIgnoringCaseOnly ==
    question # NoLine =>
        /\ (apc = "exited") <=> (Lower(question) = QuitWord)
        /\ Lower(question) # QuitWord =>
               /\ calls # <<>>
               /\ calls[Len(calls)] = question
        /\ Lower(question) = QuitWord =>
               \A i \in DOMAIN calls : Lower(calls[i]) # QuitWord

\* "QUIT" ended the loop after " quit " had been answered as a question
C2_Witness ==
    /\ apc = "exited"
    /\ entered = << <<SP, "q", "u", "i", "t", SP>>, <<"Q", "U", "I", "T">> >>
    /\ Len(printed) = 1
    /\ printed[1].question = <<SP, "q", "u", "i", "t", SP>>

ResponseStrings ==
    {<<o.text>> : o \in {x \in AgentOutcomes : x.kind = "output"}}
        \cup {Apology}
        \cup {ErrorMsg(o.text) : o \in {x \in AgentOutcomes : x.kind = "raises"}}

\* C3: a question whose answering fails (agent.invoke raises, or returns no
\* "output") does not end main: query_agent hands back a string (the error
\* text, or the apology), that string is printed as the Response, and the
\* loop is back at the prompt.
C3_FailureDoesNotEndLoop ==
    [][ /\ apc = "asked" =>
             /\ apc' = "responded"
             /\ exc' = "none"
             /\ response' \in ResponseStrings
             /\ outcome' = "raises" => \E o \in AgentOutcomes : response' = ErrorMsg(o.text)
             /\ outcome' = "no_output" => response' = Apology
        /\ apc = "responded" =>
             /\ apc' = "prompt"
             /\ exc' = "none"
             /\ printed' = Append(printed, [question |-> question, response |-> response])
      ]_vars

\* a question whose answering raised was answered with the error text, and
\* the next question was then read and answered with the apology
C3_Witness ==
    /\ apc = "prompt"
    /\ Len(printed) = 2
    /\ printed[1].response = ErrorMsg("boom")
    /\ printed[2].response = Apology
    /\ exc = "none"

HistoryWindow == 2

\* C6: the number of turns held in the agent's memory never exceeds a fixed
\* window size (older turns being dropped).
C6_HistoryBounded == Len(memory) <= HistoryWindow

\* C8: a failure of create_sql_database or setup_agent is logged and leaves
\* main by the exception: no prompt is shown and query_agent is not called;
\* and a prompt is shown only after the database was created, the global
\* dialect set and the agent built.
C8_StartupFailureAborts ==
    /\ LogConnect \in logged =>
           /\ exc = "connect" /\ apc = "crashed" /\ LogMain \in logged
           /\ prompts = 0 /\ calls = <<>>
    /\ LogSetup \in logged =>
           /\ exc = "setup" /\ apc = "crashed" /\ LogMain \in logged
           /\ prompts = 0 /\ calls = <<>>
    /\ exc \in {"connect", "setup"} => prompts = 0 /\ entered = <<>> /\ calls = <<>>
    /\ apc = "crashed" /\ ~sqldb => LogConnect \in logged
    /\ apc = "crashed" /\ sqldb /\ ~agent_built => LogSetup \in logged
    /\ (prompts > 0 \/ apc = "prompt") =>
           sqldb /\ dialect # "unset" /\ agent_built

\* the connection was made and the dialect set, and then setup_agent failed
C8_Witness ==
    /\ apc = "crashed"
    /\ exc = "setup"
    /\ sqldb
    /\ dialect = "postgresql"
    /\ ~agent_built
    /\ prompts = 0

RECURSIVE NonQuit(_)
\* the entered lines that are not the quit command, in order
NonQuit(lines) ==
    IF lines = <<>> THEN <<>>
    ELSE (IF Lower(Head(lines)) = QuitWord THEN <<>> ELSE <<Head(lines)>>)
         \o NonQuit(Tail(lines))

\* C9: questions are handled one at a time: the query_agent calls are the
\* non-quit lines entered, one call each and in order; every call has its
\* Response printed before the next prompt is shown; at most one question is
\* ever without its Response; the Responses come in the order of the questions.
C9_OneQuestionAtATime ==
    /\ calls = NonQuit(entered)
    /\ Len(printed) <= Len(calls)
    /\ Len(calls) <= Len(printed) + 1
    /\ \A i \in DOMAIN printed : printed[i].question = calls[i]
    /\ apc \in {"asked", "responded"} <=> Len(calls) = Len(printed) + 1
    /\ apc = "prompt" => Len(printed) = Len(calls) /\ prompts = Len(entered)
    /\ apc = "responded" => response \in ResponseStrings

\* three different lines were entered and answered, in that order
C9_Witness ==
    /\ apc = "prompt"
    /\ entered = << <<>>, <<"q", "u", "i", "t", "s">>, <<SP, "q", "u", "i", "t", SP>> >>
    /\ Len(printed) = 3
    /\ \A i \in 1..3 : printed[i].question = entered[i]

=============================================================================
